---- MODULE Spec2Model ----
(***************************************************************************)
(* Model of the line sender of questdb-rs (src/src/lib.rs): the call-order *)
(* state machine, name validation, escaping and value formatting, and the  *)
(* output buffer that flush hands to the socket.                           *)
(*                                                                         *)
(* A Rust `char` is modelled as a one-element string; a `&str`/`String` is *)
(* a sequence of such chars.  "U+00E9" and "U+FEFF" stand for the single   *)
(* chars of that codepoint (2 and 3 bytes in UTF-8).                       *)
(***************************************************************************)
EXTENDS Integers, Sequences, FiniteSets, TLC

VARIABLES
    state,            \* LineSender.state
    output,           \* LineSender.output (sequence of chars)
    last_line_start,  \* LineSender.last_line_start (byte offset)
    sock,             \* the transport: the write_all calls made so far
    op,               \* the public method called last
    result,           \* the error code it returned, or "Ok"
    input,            \* the string a free function is applied to
    returned          \* what the free function returned

vars == <<state, output, last_line_start, sock, op, result, input, returned>>

\* the variables that hold a free function's argument and return value
free == <<input, returned>>

----------------------------------------------------------------------------
(* Bounds of the model *)

\* table, symbol, column_*, at and at_now are called while the bytes buffered
\* plus the bytes already written to the socket are fewer than this
MaxOutput == 13

----------------------------------------------------------------------------
(* enum Op, enum State: the discriminants are bit masks *)

OpTable == 1
OpSymbol == 2
OpColumn == 4
OpAt == 8
OpFlush == 16

RECURSIVE BitAnd(_, _)
BitAnd(a, b) ==
    IF a = 0 \/ b = 0 THEN 0
    ELSE (a % 2) * (b % 2) + 2 * BitAnd(a \div 2, b \div 2)

RECURSIVE BitOr(_, _)
BitOr(a, b) ==
    IF a = 0 THEN b
    ELSE IF b = 0 THEN a
    ELSE (IF a % 2 = 1 \/ b % 2 = 1 THEN 1 ELSE 0) + 2 * BitOr(a \div 2, b \div 2)

Connected == OpTable
TableWritten == BitOr(OpSymbol, OpColumn)
SymbolWritten == BitOr(OpSymbol, BitOr(OpColumn, OpAt))
ColumnWritten == BitOr(OpColumn, OpAt)
\* MayFlushOrTable without the Table bit
MayFlushOrTable_flush_only == OpFlush

MayFlushOrTable == BitOr(OpFlush, OpTable)
Moribund == 0

State == {Connected, TableWritten, SymbolWritten, ColumnWritten,
          MayFlushOrTable, Moribund}

ErrorCode == {"CouldNotResolveAddr", "InvalidApiCall", "SocketError",
              "InvalidUtf8", "InvalidName"}

----------------------------------------------------------------------------
(* Strings *)

\* bytes of a char in UTF-8 (str::len counts bytes)
Utf8Len(c) ==
    IF c = "U+FEFF" THEN 3
    ELSE IF c = "U+00E9" THEN 2
    ELSE 1

\* ByteLen that counts chars: `chars().count()` for `len()`
ByteLen_chars(s) == Len(s)

RECURSIVE ByteLen(_)
ByteLen(s) == IF s = <<>> THEN 0 ELSE Utf8Len(Head(s)) + ByteLen(Tail(s))

Digit(d) == <<"0", "1", "2", "3", "4", "5", "6", "7", "8", "9">>[d + 1]

RECURSIVE NatToStr(_)
NatToStr(n) ==
    IF n < 10 THEN <<Digit(n)>>
    ELSE NatToStr(n \div 10) \o <<Digit(n % 10)>>

\* Display for i64: decimal digits, '-' for negatives
IntToStr(n) == IF n < 0 THEN <<"-">> \o NatToStr(0 - n) ELSE NatToStr(n)

----------------------------------------------------------------------------
(* Name::new *)

ReservedChars == {" ", "?", ".", ",", "'", "\"", "\\", "/", "NUL",
                  ":", ")", "(", "+", "-", "*", "%", "~"}

\* the first char of `name` the match rejects, as name.chars().enumerate()
\* finds it: index is the 0-based count of chars before it; 0 chars if none
RECURSIVE FirstBad(_, _)
FirstBad(name, index) ==
    IF index >= Len(name) THEN [found |-> FALSE, index |-> index, c |-> ""]
    ELSE IF name[index + 1] \in ReservedChars \/ name[index + 1] = "U+FEFF"
         THEN [found |-> TRUE, index |-> index, c |-> name[index + 1]]
    ELSE FirstBad(name, index + 1)

NameNew(name) ==
    IF name = <<>>
    THEN [ok |-> FALSE, code |-> "InvalidName", kind |-> "empty",
          c |-> "", position |-> 0]
    ELSE LET b == FirstBad(name, 0) IN
         IF b.found
         THEN [ok |-> FALSE, code |-> "InvalidName",
               kind |-> IF b.c = "U+FEFF" THEN "bom" ELSE "reserved",
               c |-> b.c, position |-> b.index]
         ELSE [ok |-> TRUE, code |-> "Ok", kind |-> "ok",
               c |-> "", position |-> 0]

----------------------------------------------------------------------------
(* Escaping *)

must_escape_unquoted(c) == c \in {" ", ",", "=", "\n", "\r", "\"", "\\"}

\* must_escape_quoted without the backslash arm
must_escape_quoted_no_backslash(c) == c \in {"\n", "\r", "\""}

must_escape_quoted(c) == c \in {"\n", "\r", "\"", "\\"}

\* the two instantiations of write_escaped_impl: `quoted` selects the pair
\* (check_escape_fn, quoting_fn) that write_escaped_quoted passes, otherwise
\* the pair of write_escaped_unquoted
check_escape_fn(quoted, c) ==
    IF quoted THEN must_escape_quoted(c) ELSE must_escape_unquoted(c)

quoting_fn(quoted) == IF quoted THEN <<"\"">> ELSE <<>>

\* the else branch: a backslash ahead of every char to escape
RECURSIVE EscapeChars(_, _)
EscapeChars(quoted, s) ==
    IF s = <<>> THEN <<>>
    ELSE (IF check_escape_fn(quoted, Head(s)) THEN <<"\\", Head(s)>>
          ELSE <<Head(s)>>)
         \o EscapeChars(quoted, Tail(s))

\* the text write_escaped_impl appends to `output`
write_escaped_impl(quoted, s) ==
    LET to_escape ==
            Cardinality({i \in 1..Len(s) : check_escape_fn(quoted, s[i])})
    IN  quoting_fn(quoted)
        \o (IF to_escape = 0 THEN s ELSE EscapeChars(quoted, s))
        \o quoting_fn(quoted)

write_escaped_unquoted(s) == write_escaped_impl(FALSE, s)

write_escaped_quoted(s) == write_escaped_impl(TRUE, s)

----------------------------------------------------------------------------
(* Value formatting *)

\* an f64 is [cls: "inf" | "nan" | "fin", neg, twice]; a finite value is
\* twice/2 with the sign neg
PosInf == [cls |-> "inf", neg |-> FALSE, twice |-> 0]
NegInf == [cls |-> "inf", neg |-> TRUE, twice |-> 0]
NaN == [cls |-> "nan", neg |-> FALSE, twice |-> 0]
Fin(neg, twice) == [cls |-> "fin", neg |-> neg, twice |-> twice]

\* Display for f64
F64Display(v) ==
    IF v.cls = "nan" THEN <<"N", "a", "N">>
    ELSE (IF v.neg THEN <<"-">> ELSE <<>>)
         \o (IF v.cls = "inf" THEN <<"i", "n", "f">>
             ELSE NatToStr(v.twice \div 2)
                  \o (IF v.twice % 2 = 1 THEN <<".", "5">> ELSE <<>>))

\* F64Text without the two infinity cases
F64Text_display(value) == F64Display(value)

F64Text(value) ==
    IF value = PosInf THEN <<"I", "n", "f", "i", "n", "i", "t", "y">>
    ELSE IF value = NegInf THEN <<"-", "I", "n", "f", "i", "n", "i", "t", "y">>
    ELSE F64Display(value)

I64Text(value) == IntToStr(value) \o <<"i">>

BoolText(value) == <<IF value THEN "t" ELSE "f">>

----------------------------------------------------------------------------
(* Inputs the calls are made with *)

\* empty, a reserved character, the BOM
BadNames == {<<>>, <<"a", ".", "b">>, <<"U+FEFF", "a">>}
GoodTableNames == {<<"t">>, <<"x">>}
GoodSymbolNames == {<<"s">>, <<"\n">>}
GoodColumnNames == {<<"c">>}
GoodF64Names == {<<"f">>}
TableNames == GoodTableNames \cup BadNames
SymbolNames == GoodSymbolNames \cup BadNames
ColumnNames == GoodColumnNames \cup BadNames
F64Names == GoodF64Names \cup BadNames
SymbolValues == {<<"v">>, <<"U+00E9", "\\">>}
StrValues == {<<"a", "\"", "b">>, <<" ", "\n">>}
I64Values == {10, -7}
F64Values == {PosInf, NegInf, Fin(FALSE, 3)}
Timestamps == {123}

----------------------------------------------------------------------------
(* LineSender *)

\* PendingSize without the Moribund case
PendingSize_ignores_state(st, out) == ByteLen(out)

PendingSize(st, out) == IF st # Moribund THEN ByteLen(out) ELSE 0

pending_size == PendingSize(state, output)

must_close == state = Moribund

\* check_state with `>= 0` for `> 0`
check_state_ge(o) == BitAnd(state, o) >= 0

check_state(o) == BitAnd(state, o) > 0

\* the Err branch of `name.try_into()?`
InvalidName(method) ==
    /\ op' = method
    /\ result' = "InvalidName"
    /\ UNCHANGED <<state, output, last_line_start, sock>>

\* StateError without `self.state = State::Moribund`
StateError_keeps_state(method) ==
    /\ op' = method
    /\ result' = "InvalidApiCall"
    /\ UNCHANGED <<state, output, last_line_start, sock>>

\* the Err branch of check_state
StateError(method) ==
    /\ state' = Moribund
    /\ op' = method
    /\ result' = "InvalidApiCall"
    /\ UNCHANGED <<output, last_line_start, sock>>

\* table with the state check ahead of the name validation
table_state_first(name) ==
    IF ~check_state(OpTable) THEN StateError("table")
    ELSE IF ~NameNew(name).ok THEN InvalidName("table")
    ELSE /\ output' = output \o write_escaped_unquoted(name)
         /\ state' = TableWritten
         /\ op' = "table"
         /\ result' = "Ok"
         /\ UNCHANGED <<last_line_start, sock>>

table(name) ==
    IF ~NameNew(name).ok THEN InvalidName("table")
    ELSE IF ~check_state(OpTable) THEN StateError("table")
    ELSE /\ output' = output \o write_escaped_unquoted(name)
         /\ state' = TableWritten
         /\ op' = "table"
         /\ result' = "Ok"
         /\ UNCHANGED <<last_line_start, sock>>

\* symbol with the ',' pushed ahead of the state check
symbol_push_first(name, value) ==
    IF ~NameNew(name).ok THEN InvalidName("symbol")
    ELSE IF ~check_state(OpSymbol)
    THEN /\ output' = output \o <<",">>
         /\ state' = Moribund
         /\ op' = "symbol"
         /\ result' = "InvalidApiCall"
         /\ UNCHANGED <<last_line_start, sock>>
    ELSE /\ output' = output \o <<",">> \o write_escaped_unquoted(name)
                             \o <<"=">> \o write_escaped_unquoted(value)
         /\ state' = SymbolWritten
         /\ op' = "symbol"
         /\ result' = "Ok"
         /\ UNCHANGED <<last_line_start, sock>>

\* symbol that checks the state for Op::Column
symbol_column_bit(name, value) ==
    IF ~NameNew(name).ok THEN InvalidName("symbol")
    ELSE IF ~check_state(OpColumn) THEN StateError("symbol")
    ELSE /\ output' = output \o <<",">> \o write_escaped_unquoted(name)
                             \o <<"=">> \o write_escaped_unquoted(value)
         /\ state' = SymbolWritten
         /\ op' = "symbol"
         /\ result' = "Ok"
         /\ UNCHANGED <<last_line_start, sock>>

symbol(name, value) ==
    IF ~NameNew(name).ok THEN InvalidName("symbol")
    ELSE IF ~check_state(OpSymbol) THEN StateError("symbol")
    ELSE /\ output' = output \o <<",">> \o write_escaped_unquoted(name)
                             \o <<"=">> \o write_escaped_unquoted(value)
         /\ state' = SymbolWritten
         /\ op' = "symbol"
         /\ result' = "Ok"
         /\ UNCHANGED <<last_line_start, sock>>

\* ColumnSeparator testing the column bit for the symbol bit
ColumnSeparator_column_bit(st) == IF BitAnd(st, OpColumn) > 0 THEN " " ELSE ","

\* ColumnSeparator with the two arms exchanged
ColumnSeparator_swapped(st) == IF BitAnd(st, OpSymbol) > 0 THEN "," ELSE " "

\* the separator write_column_key pushes in state st
ColumnSeparator(st) == IF BitAnd(st, OpSymbol) > 0 THEN " " ELSE ","

\* write_column_key followed by the push of the formatted value
write_column(method, name, text) ==
    IF ~NameNew(name).ok THEN InvalidName(method)
    ELSE IF ~check_state(OpColumn) THEN StateError(method)
    ELSE /\ output' = output \o <<ColumnSeparator(state)>>
                             \o write_escaped_unquoted(name) \o <<"=">> \o text
         /\ state' = ColumnWritten
         /\ op' = method
         /\ result' = "Ok"
         /\ UNCHANGED <<last_line_start, sock>>

column_bool(name, value) == write_column("column_bool", name, BoolText(value))

column_i64(name, value) == write_column("column_i64", name, I64Text(value))

column_f64(name, value) == write_column("column_f64", name, F64Text(value))

column_str(name, value) ==
    write_column("column_str", name, write_escaped_quoted(value))

\* commit_line that moves the boundary before it pushes the text
commit_line_boundary_first(method, text) ==
    IF ~check_state(OpAt) THEN StateError(method)
    ELSE /\ last_line_start' = PendingSize(state, output)
         /\ output' = output \o text
         /\ state' = MayFlushOrTable
         /\ op' = method
         /\ result' = "Ok"
         /\ UNCHANGED sock

\* the common tail of at and at_now
commit_line(method, text) ==
    IF ~check_state(OpAt) THEN StateError(method)
    ELSE /\ output' = output \o text
         /\ last_line_start' = PendingSize(state, output')
         /\ state' = MayFlushOrTable
         /\ op' = method
         /\ result' = "Ok"
         /\ UNCHANGED sock

at(epoch_nanos) == commit_line("at", <<" ">> \o IntToStr(epoch_nanos) \o <<"\n">>)

at_now == commit_line("at_now", <<"\n">>)

\* flush without the state check
flush_unchecked(io_ok) ==
    /\ sock' = Append(sock, [buf |-> output, ok |-> io_ok])
    /\ op' = "flush"
    /\ IF io_ok
       THEN /\ output' = <<>>
            /\ state' = Connected
            /\ result' = "Ok"
       ELSE /\ state' = Moribund
            /\ result' = "SocketError"
            /\ UNCHANGED output
    /\ UNCHANGED last_line_start

\* flush without `self.output.clear()`
flush_no_clear(io_ok) ==
    IF ~check_state(OpFlush) THEN StateError("flush")
    ELSE /\ sock' = Append(sock, [buf |-> output, ok |-> io_ok])
         /\ op' = "flush"
         /\ IF io_ok
            THEN /\ state' = Connected
                 /\ result' = "Ok"
            ELSE /\ state' = Moribund
                 /\ result' = "SocketError"
         /\ UNCHANGED <<output, last_line_start>>

\* flush that writes to the socket before it checks the state
flush_write_first(io_ok) ==
    /\ sock' = Append(sock, [buf |-> output, ok |-> io_ok])
    /\ op' = "flush"
    /\ IF ~check_state(OpFlush)
       THEN /\ state' = Moribund
            /\ result' = "InvalidApiCall"
            /\ UNCHANGED output
       ELSE IF io_ok
       THEN /\ output' = <<>>
            /\ state' = Connected
            /\ result' = "Ok"
       ELSE /\ state' = Moribund
            /\ result' = "SocketError"
            /\ UNCHANGED output
    /\ UNCHANGED last_line_start

\* io_ok: whether sock.write_all succeeds
flush(io_ok) ==
    IF ~check_state(OpFlush) THEN StateError("flush")
    ELSE /\ sock' = Append(sock, [buf |-> output, ok |-> io_ok])
         /\ op' = "flush"
         /\ IF io_ok
            THEN /\ output' = <<>>
                 /\ state' = Connected
                 /\ result' = "Ok"
            ELSE /\ state' = Moribund
                 /\ result' = "SocketError"
                 /\ UNCHANGED output
         /\ UNCHANGED last_line_start

----------------------------------------------------------------------------
(* The sender after a successful connect, driven by any caller *)

Init ==
    /\ state = Connected
    /\ output = <<>>
    /\ last_line_start = 0
    /\ sock = <<>>
    /\ op = "connect"
    /\ result = "Ok"
    /\ input = <<>>
    /\ returned = [fn |-> "none"]

RECURSIVE SentBytes(_)
SentBytes(w) ==
    IF w = <<>> THEN 0
    ELSE (IF Head(w).ok THEN ByteLen(Head(w).buf) ELSE 0) + SentBytes(Tail(w))

MayAppend == ByteLen(output) + SentBytes(sock) < MaxOutput

TableCall ==
    /\ MayAppend
    /\ \E name \in TableNames : table(name)
    /\ UNCHANGED free

SymbolCall ==
    /\ MayAppend
    /\ \E name \in SymbolNames, value \in SymbolValues : symbol(name, value)
    /\ UNCHANGED free

ColumnBoolCall ==
    /\ MayAppend
    /\ \E name \in ColumnNames, value \in BOOLEAN : column_bool(name, value)
    /\ UNCHANGED free

ColumnI64Call ==
    /\ MayAppend
    /\ \E name \in ColumnNames, value \in I64Values : column_i64(name, value)
    /\ UNCHANGED free

ColumnF64Call ==
    /\ MayAppend
    /\ \E name \in F64Names, value \in F64Values : column_f64(name, value)
    /\ UNCHANGED free

ColumnStrCall ==
    /\ MayAppend
    /\ \E name \in ColumnNames, value \in StrValues : column_str(name, value)
    /\ UNCHANGED free

AtCall ==
    /\ MayAppend
    /\ \E epoch_nanos \in Timestamps : at(epoch_nanos)
    /\ UNCHANGED free

AtNowCall ==
    /\ MayAppend
    /\ at_now
    /\ UNCHANGED free

FlushCall ==
    /\ \E io_ok \in BOOLEAN : flush(io_ok)
    /\ UNCHANGED free

Next ==
    \/ TableCall
    \/ SymbolCall
    \/ ColumnBoolCall
    \/ ColumnI64Call
    \/ ColumnF64Call
    \/ ColumnStrCall
    \/ AtCall
    \/ AtNowCall
    \/ FlushCall

Spec == Init /\ [][Next]_vars

TypeOK ==
    /\ state \in State
    /\ last_line_start \in Nat
    /\ result \in ErrorCode \cup {"Ok"}

----------------------------------------------------------------------------
(* Reading the wire text back: which chars of a text are delimiters *)

\* Escaped(s)[i]: s[i] follows a backslash that is not itself escaped
Escaped(s) ==
    LET e[i \in 0..Len(s)] ==
            IF i <= 1 THEN FALSE ELSE s[i - 1] = "\\" /\ ~e[i - 1]
    IN  e

\* InQuotes(s)[i]: an odd number of unescaped double quotes precede s[i]
InQuotes(s) ==
    LET esc == Escaped(s)
        q[i \in 0..Len(s)] ==
            IF i <= 1 THEN FALSE
            ELSE IF s[i - 1] = "\"" /\ ~esc[i - 1] THEN ~q[i - 1] ELSE q[i - 1]
    IN  q

\* positions of the newlines of s no backslash escapes
LineEnds(s) == {i \in 1..Len(s) : s[i] = "\n" /\ ~Escaped(s)[i]}

\* positions of the unescaped and unquoted separators of s, newlines included
Delims(s) ==
    LineEnds(s) \cup
    {i \in 1..Len(s) : /\ s[i] \in {",", "=", " "}
                       /\ ~Escaped(s)[i]
                       /\ ~InQuotes(s)[i]}

\* the separators of s in order, as a sequence of chars
Skeleton(s) ==
    LET d == Delims(s)
        k[i \in 0..Len(s)] ==
            IF i = 0 THEN <<>>
            ELSE IF i \in d THEN Append(k[i - 1], s[i]) ELSE k[i - 1]
    IN  k[Len(s)]

\* sk is  (",=")* [" =" (",=")*] [" "] "\n"  with at least one field:
\* symbols, then columns of which the first follows a space, then the
\* optional timestamp
RECURSIVE LineShape(_, _, _)
LineShape(sk, columns, fields) ==
    IF Len(sk) >= 2 /\ sk[1] = "," /\ sk[2] = "="
    THEN LineShape(SubSeq(sk, 3, Len(sk)), columns, fields + 1)
    ELSE IF Len(sk) >= 2 /\ sk[1] = " " /\ sk[2] = "=" /\ ~columns
    THEN LineShape(SubSeq(sk, 3, Len(sk)), TRUE, fields + 1)
    ELSE fields > 0 /\ (sk = <<"\n">> \/ sk = <<" ", "\n">>)

IsDigit(c) == c \in {"0", "1", "2", "3", "4", "5", "6", "7", "8", "9"}

IsDecimal(s) ==
    LET digits == IF s # <<>> /\ s[1] = "-" THEN Tail(s) ELSE s IN
    digits # <<>> /\ \A i \in 1..Len(digits) : IsDigit(digits[i])

\* the skeleton ends with the space that precedes a timestamp
HasTimestamp(sk) == Len(sk) >= 2 /\ sk[Len(sk) - 1] = " "

\* the text between the last separating space of line and its newline
TimestampText(line) ==
    LET sp == {i \in Delims(line) : line[i] = " "}
        last == CHOOSE i \in sp : \A j \in sp : j <= i
    IN  SubSeq(line, last + 1, Len(line) - 1)

\* line is one complete protocol line: a non-empty table name, fields with
\* non-empty keys behind their separators, the optional decimal timestamp
\* behind one space, and one unescaped newline, which ends it
WellFormedLine(line) ==
    LET d == Delims(line)
        sk == Skeleton(line)
    IN  /\ line # <<>>
        /\ LineEnds(line) = {Len(line)}
        /\ 1 \notin d
        /\ LineShape(sk, FALSE, 0)
        /\ \A i \in d : line[i] \in {",", " "} => i + 1 \notin d
        /\ HasTimestamp(sk) => IsDecimal(TimestampText(line))

\* the lines of s: s cut after each unescaped newline
Lines(s) ==
    LET ends == LineEnds(s)
        start(e) == IF \E j \in ends : j < e
                    THEN 1 + CHOOSE j \in ends : j < e /\ \A l \in ends : l < e => l <= j
                    ELSE 1
    IN  {SubSeq(s, start(e), e) : e \in ends}

\* s is one or more complete well-formed lines and nothing else
CompleteLines(s) ==
    /\ s # <<>>
    /\ Len(s) \in LineEnds(s)
    /\ \A line \in Lines(s) : WellFormedLine(line)

\* where the line under construction starts in s
LineStart(s) ==
    LET ends == LineEnds(s) IN
    IF ends = {} THEN 1 ELSE 1 + CHOOSE j \in ends : \A l \in ends : l <= j

----------------------------------------------------------------------------
(* Section 4.4 of the specification: the operations legal in each state *)

LegalOps(st) ==
    CASE st = Connected -> {"table"}
      [] st = TableWritten -> {"symbol", "column"}
      [] st = SymbolWritten -> {"symbol", "column", "at"}
      [] st = ColumnWritten -> {"column", "at"}
      [] st = MayFlushOrTable -> {"flush", "table"}
      [] st = Moribund -> {}

\* some column_* call with this name
ColumnCallNamed(name) ==
    \/ \E value \in BOOLEAN : column_bool(name, value)
    \/ \E value \in I64Values : column_i64(name, value)
    \/ \E value \in F64Values : column_f64(name, value)
    \/ \E value \in StrValues : column_str(name, value)

SymbolCallNamed(name) == \E value \in SymbolValues : symbol(name, value)

AtCallAny == at_now \/ \E epoch_nanos \in Timestamps : at(epoch_nanos)

FlushCallAny == \E io_ok \in BOOLEAN : flush(io_ok)

GoodColumnNamesAll == GoodColumnNames \cup GoodF64Names

ColumnMethods == {"column_bool", "column_i64", "column_f64", "column_str"}

Poisoned == result = "InvalidApiCall" /\ state = Moribund /\ must_close

----------------------------------------------------------------------------
(* C1 *)

\* C1: every byte string flush hands to the socket, whether the write then
\* succeeds or fails, is one or more complete lines, each ending in an
\* unescaped newline; nothing of a line at/at_now has not terminated is in it.
C1_FlushedBytesAreCompleteLines ==
    \A i \in 1..Len(sock) : CompleteLines(sock[i].buf)

\* a buffer of two lines has been handed to the socket
C1_Witness ==
    \E i \in 1..Len(sock) : Cardinality(LineEnds(sock[i].buf)) = 2

----------------------------------------------------------------------------
(* C2 *)

\* C2: a call with a valid name (or at, at_now, flush) in a state whose legal
\* operations do not include it returns InvalidApiCall and leaves the state
\* Moribund, so that must_close() is true.
C2_PoisonOnMisuse ==
    [][/\ "table" \notin LegalOps(state) /\ op' = "table"
          /\ (\E name \in GoodTableNames : table(name))
          => Poisoned'
       /\ "symbol" \notin LegalOps(state) /\ op' = "symbol"
          /\ (\E name \in GoodSymbolNames : SymbolCallNamed(name))
          => Poisoned'
       /\ "column" \notin LegalOps(state) /\ op' \in ColumnMethods
          /\ (\E name \in GoodColumnNamesAll : ColumnCallNamed(name))
          => Poisoned'
       /\ "at" \notin LegalOps(state) /\ op' \in {"at", "at_now"} /\ AtCallAny
          => Poisoned'
       /\ "flush" \notin LegalOps(state) /\ op' = "flush" /\ FlushCallAny
          => Poisoned'
      ]_vars

\* at or at_now was called on a buffer that ends with a committed line (at
\* called twice) and poisoned the sender
C2_Witness ==
    /\ op \in {"at", "at_now"}
    /\ Poisoned
    /\ output # <<>>
    /\ Len(output) \in LineEnds(output)

----------------------------------------------------------------------------
(* C3 *)

\* C3: once the state is Moribund every later call returns an error and the
\* state stays Moribund, must_close() staying true; symbol right after connect
\* fails and poisons, so a following table fails as well.
C3_MoribundIsAbsorbing ==
    [][/\ state = Moribund =>
              state' = Moribund /\ must_close' /\ result' \in ErrorCode
       /\ \A name \in GoodSymbolNames :
              state = Connected /\ sock = <<>> /\ SymbolCallNamed(name)
              => result' \in ErrorCode /\ state' = Moribund
      ]_vars

\* table has failed on a sender that was poisoned before anything was written
C3_Witness ==
    /\ state = Moribund
    /\ op = "table"
    /\ result = "InvalidApiCall"
    /\ output = <<>>
    /\ sock = <<>>

----------------------------------------------------------------------------
(* C4 *)

\* C4: in a state other than Moribund, table, symbol or column_* with an
\* empty name, a name with a reserved character or a name with the BOM
\* returns InvalidName and changes neither the state, the buffer, the
\* committed-line boundary nor the socket.
C4_BadNameDoesNotPoison ==
    [][\A name \in BadNames :
           /\ state # Moribund
           /\ table(name) \/ SymbolCallNamed(name) \/ ColumnCallNamed(name)
           => /\ result' = "InvalidName"
              /\ UNCHANGED <<state, output, last_line_start, sock>>
      ]_vars

\* a column call with a bad name was refused in the middle of a line
C4_Witness ==
    /\ result = "InvalidName"
    /\ op = "column_str"
    /\ state = SymbolWritten
    /\ ~must_close

----------------------------------------------------------------------------
(* C5 *)

\* C5: once the sender is Moribund every later mutating call, whatever its
\* arguments, fails with InvalidApiCall.
C5_MoribundAlwaysInvalidApiCall ==
    [][state = Moribund => result' = "InvalidApiCall"]_vars

----------------------------------------------------------------------------
(* C6 *)

\* C6: a flush in MayFlushOrTable whose write succeeds hands the whole buffer
\* to the socket, empties the buffer (pending_size() is 0) and returns to
\* Connected.
C6_FlushSuccess ==
    [][state = MayFlushOrTable /\ flush(TRUE)
       => /\ result' = "Ok"
          /\ output' = <<>>
          /\ pending_size' = 0
          /\ state' = Connected
          /\ sock' = Append(sock, [buf |-> output, ok |-> TRUE])
          /\ output # <<>>
      ]_vars

\* a flush has succeeded
C6_Witness ==
    /\ op = "flush"
    /\ result = "Ok"
    /\ state = Connected
    /\ sock # <<>>
    /\ sock[Len(sock)].ok

----------------------------------------------------------------------------
(* C7 *)

\* C7: a flush in MayFlushOrTable whose write fails returns SocketError,
\* leaves the state Moribund and the buffer as it was, and pending_size()
\* is 0.
C7_FlushFailure ==
    [][state = MayFlushOrTable /\ flush(FALSE)
       => /\ result' = "SocketError"
          /\ state' = Moribund
          /\ output' = output
          /\ output' # <<>>
          /\ pending_size' = 0
      ]_vars

\* a flush has failed in the socket, with the buffer still full
C7_Witness ==
    /\ op = "flush"
    /\ result = "SocketError"
    /\ state = Moribund
    /\ output # <<>>
    /\ sock # <<>>
    /\ ~sock[Len(sock)].ok

----------------------------------------------------------------------------
(* C8 *)

\* C8: a call that returns an error (InvalidName, InvalidApiCall or
\* SocketError) leaves the buffer as it was.
C8_ErrorLeavesBufferUnchanged ==
    [][result' \in ErrorCode => output' = output]_vars

\* symbol was refused in the middle of a line (after a column)
C8_Witness ==
    /\ op = "symbol"
    /\ result = "InvalidApiCall"
    /\ output # <<>>
    /\ Len(output) \notin LineEnds(output)
    /\ "=" \in {output[i] : i \in Delims(output)}

----------------------------------------------------------------------------
(* C9 *)

\* the line an accepted at/at_now has just terminated
CommittedLine == SubSeq(output', LineStart(output), Len(output'))

\* the separator an accepted symbol or column_* call has just pushed
PushedSeparator == output'[Len(output) + 1]

\* what at and at_now append: one space and the decimal timestamp, or
\* nothing, and then the newline that is the only unescaped one of the line
CommitAppendsTimestampAndNewline ==
    /\ \A epoch_nanos \in Timestamps :
           op' = "at" /\ result' = "Ok" /\ at(epoch_nanos)
           => /\ LineEnds(CommittedLine) = {Len(CommittedLine)}
              /\ HasTimestamp(Skeleton(CommittedLine))
              /\ TimestampText(CommittedLine) = IntToStr(epoch_nanos)
              /\ Len(output') = Len(output) + 2 + Len(IntToStr(epoch_nanos))
    /\ op' = "at_now" /\ result' = "Ok" /\ at_now
           => /\ LineEnds(CommittedLine) = {Len(CommittedLine)}
              /\ ~HasTimestamp(Skeleton(CommittedLine))
              /\ Len(output') = Len(output) + 1

\* C9 as stated: the committed line has one unescaped space before the
\* timestamp (none for at_now) and one newline, at its end, and a ','
\* precedes the first column that follows symbols.
C9_CommaBeforeFirstColumnAfterSymbols ==
    [][/\ CommitAppendsTimestampAndNewline
       /\ op' \in ColumnMethods /\ result' = "Ok" /\ state = SymbolWritten
          => PushedSeparator = ","
      ]_vars

\* C9 (amended): every line committed by an accepted at/at_now is well
\* formed: table name, ',' before every symbol, one space before the first
\* column of the line whether it follows the table name or symbols, ','
\* before every later column, one space before the timestamp (none for
\* at_now), and one unescaped newline, which ends the line.
C9_CommittedLineIsWellFormed ==
    [][/\ CommitAppendsTimestampAndNewline
       /\ op' \in {"at", "at_now"} /\ result' = "Ok"
          => WellFormedLine(CommittedLine)
       /\ op' \in ColumnMethods /\ result' = "Ok"
          => PushedSeparator = (IF state = ColumnWritten THEN "," ELSE " ")
       /\ op' = "symbol" /\ result' = "Ok" => PushedSeparator = ","
      ]_vars

\* a line with a symbol, then a column, then a timestamp has been committed
C9_Witness ==
    /\ op = "at"
    /\ result = "Ok"
    /\ LET line == SubSeq(output, LineStart(SubSeq(output, 1, Len(output) - 1)),
                          Len(output))
       IN  Skeleton(line) = <<",", "=", " ", "=", " ", "\n">>

----------------------------------------------------------------------------
(* C10 *)

Doc1 == <<"t", ",", "s", "=", "v", " ", "c", "=", "1", "0", "i", "\n">>

Doc2 == <<"x", " ", "f", "=", "I", "n", "f", "i", "n", "i", "t", "y",
          " ", "1", "2", "3", "\n">>

Doc3 == <<"t", " ", "c", "=", "\"", "a", "\\", "\"", "b", "\"", "\n">>

\* a call chain, one call at a time: from the text `from` in state st the
\* call leaves the text `to`
Gives(st, from, call, to) ==
    state = st /\ output = from /\ call => result' = "Ok" /\ output' = to

\* the text an accepted call has appended
Pushed == SubSeq(output', Len(output) + 1, Len(output'))

\* C10: on a freshly connected sender
\* table(t).symbol(s,v).column_i64(c,10).at_now() leaves `t,s=v c=10i\n`,
\* table(x).column_f64(f,+inf).at(123) leaves `x f=Infinity 123\n` and
\* table(t).column_str(c, a"b).at_now() leaves `t c="a\"b"\n`; the first column
\* of a line follows one space, after the table name as after a symbol,
\* integers end in `i`, and text values are quoted with `"` escaped.
C10_DocumentedLines ==
    [][/\ Gives(Connected, <<>>, table(<<"t">>), SubSeq(Doc1, 1, 1))
       /\ Gives(TableWritten, SubSeq(Doc1, 1, 1),
                symbol(<<"s">>, <<"v">>), SubSeq(Doc1, 1, 5))
       /\ Gives(SymbolWritten, SubSeq(Doc1, 1, 5),
                column_i64(<<"c">>, 10), SubSeq(Doc1, 1, 11))
       /\ Gives(ColumnWritten, SubSeq(Doc1, 1, 11), at_now, Doc1)
       /\ Gives(Connected, <<>>, table(<<"x">>), SubSeq(Doc2, 1, 1))
       /\ Gives(TableWritten, SubSeq(Doc2, 1, 1),
                column_f64(<<"f">>, PosInf), SubSeq(Doc2, 1, 12))
       /\ Gives(ColumnWritten, SubSeq(Doc2, 1, 12), at(123), Doc2)
       /\ Gives(TableWritten, SubSeq(Doc3, 1, 1),
                column_str(<<"c">>, <<"a", "\"", "b">>), SubSeq(Doc3, 1, 10))
       /\ Gives(ColumnWritten, SubSeq(Doc3, 1, 10), at_now, Doc3)
       /\ op' \in ColumnMethods /\ result' = "Ok"
          /\ state \in {TableWritten, SymbolWritten}
          => Pushed[1] = " " /\ Pushed[2] # " "
       /\ op' = "column_i64" /\ result' = "Ok"
          => Pushed[Len(Pushed)] = "i" /\ IsDigit(Pushed[Len(Pushed) - 1])
       /\ op' = "column_str" /\ result' = "Ok"
          => LET eq == CHOOSE i \in 1..Len(Pushed) :
                           i \in Delims(Pushed) /\ Pushed[i] = "="
                 text == SubSeq(Pushed, eq + 1, Len(Pushed))
             IN  /\ Len(text) >= 2
                 /\ text[1] = "\"" /\ text[Len(text)] = "\""
                 /\ \A i \in 2..(Len(text) - 1) :
                        text[i] = "\"" => Escaped(text)[i]
                 /\ ~Escaped(text)[Len(text)]
      ]_vars

\* the second documented chain has run to its end on a fresh sender
C10_Witness ==
    /\ op = "at"
    /\ result = "Ok"
    /\ output = Doc2
    /\ sock = <<>>

\* the ends of the first and the third documented chain
Doc1Reached == op = "at_now" /\ result = "Ok" /\ output = Doc1 /\ sock = <<>>

Doc3Reached == op = "at_now" /\ result = "Ok" /\ output = Doc3 /\ sock = <<>>

-----------------------------------------------------------------------------
(* C11 *)

\* the bytes of a text, counted from its chars one by one
Utf8Bytes(s) ==
    Len(s) + Cardinality({i \in 1..Len(s) : s[i] = "U+00E9"})
           + 2 * Cardinality({i \in 1..Len(s) : s[i] = "U+FEFF"})

\* C11: in every reachable state pending_size() is the length in bytes of
\* the buffer, committed lines and line in progress together, when the
\* state is not Moribund, and 0 when it is Moribund, whatever the buffer
\* still holds.
C11_PendingSizeIsBufferLength ==
    pending_size = IF state = Moribund THEN 0 ELSE Utf8Bytes(output)

\* a misused sender whose buffer still holds a line in progress with a
\* two-byte char
C11_Witness ==
    /\ state = Moribund
    /\ result = "InvalidApiCall"
    /\ \E i \in 1..Len(output) : output[i] = "U+00E9"
    /\ Utf8Bytes(output) > Len(output)
    /\ pending_size = 0

-----------------------------------------------------------------------------
(* C12: the sender with its two inspections *)

\* pending_size that moves the boundary, as update_last_line_start does
pending_size_call_moves_boundary ==
    /\ op' = "pending_size"
    /\ last_line_start' = pending_size
    /\ UNCHANGED <<state, output, sock, result, free>>

\* pending_size(&self): reads state and output.len()
pending_size_call ==
    /\ op' = "pending_size"
    /\ UNCHANGED <<state, output, last_line_start, sock, result, free>>

\* must_close(&self): reads state
must_close_call ==
    /\ op' = "must_close"
    /\ UNCHANGED <<state, output, last_line_start, sock, result, free>>

PendingSizeCall == pending_size_call

MustCloseCall == must_close_call

NextInspect ==
    \/ Next
    \/ PendingSizeCall
    \/ MustCloseCall

SpecInspect == Init /\ [][NextInspect]_vars

\* C12: pending_size() and must_close() leave the state, the buffer and
\* the committed-line boundary as they were, so that a repeated call
\* returns what the call before it returned, and must_close() is true
\* exactly in Moribund, the one state in which no operation is legal.
C12_InspectionsArePure ==
    [][PendingSizeCall \/ MustCloseCall
       => /\ UNCHANGED <<state, output, last_line_start, sock>>
          /\ pending_size' = pending_size
          /\ must_close' = must_close
          /\ must_close' <=> state = Moribund
          /\ must_close' <=> LegalOps(state) = {}
      ]_vars

\* pending_size() was called on a line in progress that follows a
\* committed line
C12_Witness ==
    /\ op = "pending_size"
    /\ state = ColumnWritten
    /\ last_line_start > 0
    /\ pending_size > last_line_start

-----------------------------------------------------------------------------
(* C13: Name::new applied to the identifiers over a small alphabet *)

MaxNameLen == 3

\* a plain char, a two-byte char, two chars of the reserved set, the BOM
NameAlphabet == {"a", "U+00E9", ".", "~", "U+FEFF"}

Names == UNION {[1..n -> NameAlphabet] : n \in 0..MaxNameLen}

\* the variables of the sender and of its caller
sender == <<state, output, last_line_start, sock, op, result>>

InitName ==
    /\ state = Connected
    /\ output = <<>>
    /\ last_line_start = 0
    /\ sock = <<>>
    /\ op = "connect"
    /\ result = "Ok"
    /\ input \in Names
    /\ returned = [fn |-> "none"]

\* Name::new(input)
name_new ==
    /\ returned.fn = "none"
    /\ returned' = [fn |-> "Name::new", value |-> NameNew(input)]
    /\ UNCHANGED <<sender, input>>

NextName == name_new

SpecName == InitName /\ [][NextName]_vars

\* the indices of the chars of `name` that a name may not hold
Offending(name) ==
    {i \in 1..Len(name) : name[i] \in ReservedChars \cup {"U+FEFF"}}

FirstOffending(name) ==
    CHOOSE i \in Offending(name) : \A j \in Offending(name) : i <= j

\* C13: Name::new rejects an identifier that holds a reserved char or
\* U+FEFF with InvalidName and reports the byte offset of the first such
\* char in the identifier; it accepts every other non-empty identifier and
\* rejects the empty one.
C13_PositionIsByteOffset ==
    returned.fn = "Name::new" =>
        LET r == returned.value IN
        IF input = <<>> THEN ~r.ok /\ r.code = "InvalidName"
        ELSE IF Offending(input) = {} THEN r.ok
        ELSE /\ ~r.ok
             /\ r.code = "InvalidName"
             /\ r.c = input[FirstOffending(input)]
             /\ r.position =
                    Utf8Bytes(SubSeq(input, 1, FirstOffending(input) - 1))

-----------------------------------------------------------------------------
(* C14: the two escaping functions applied to the texts over a small
   alphabet *)

MaxTextLen == 3

\* a plain char and the seven chars that some strategy escapes
TextAlphabet == {"a", " ", ",", "=", "\n", "\r", "\"", "\\"}

Texts == UNION {[1..n -> TextAlphabet] : n \in 0..MaxTextLen}

InitEscape ==
    /\ state = Connected
    /\ output = <<>>
    /\ last_line_start = 0
    /\ sock = <<>>
    /\ op = "connect"
    /\ result = "Ok"
    /\ input \in Texts
    /\ returned = [fn |-> "none"]

\* write_escaped_unquoted(&mut String::new(), input)
escape_unquoted ==
    /\ returned.fn = "none"
    /\ returned' = [fn |-> "write_escaped_unquoted",
                    value |-> write_escaped_unquoted(input)]
    /\ UNCHANGED <<sender, input>>

\* write_escaped_quoted(&mut String::new(), input)
escape_quoted ==
    /\ returned.fn = "none"
    /\ returned' = [fn |-> "write_escaped_quoted",
                    value |-> write_escaped_quoted(input)]
    /\ UNCHANGED <<sender, input>>

NextEscape ==
    \/ escape_unquoted
    \/ escape_quoted

SpecEscape == InitEscape /\ [][NextEscape]_vars

\* a token read back: every backslash is dropped and the char after it kept
RECURSIVE Unescape(_)
Unescape(t) ==
    IF t = <<>> THEN <<>>
    ELSE IF Head(t) = "\\"
         THEN IF Len(t) = 1 THEN <<>>
              ELSE <<t[2]>> \o Unescape(SubSeq(t, 3, Len(t)))
    ELSE <<Head(t)>> \o Unescape(Tail(t))

UnquotedEscapeSet == {" ", ",", "=", "\n", "\r", "\"", "\\"}

QuotedEscapeSet == {"\n", "\r", "\"", "\\"}

\* in token t a char has a backslash before it exactly if it is in `set`,
\* and no backslash is left without a char to escape
BackslashIff(t, set) ==
    \A i \in 1..Len(t) :
        IF t[i] = "\\" /\ ~Escaped(t)[i] THEN i < Len(t)
        ELSE Escaped(t)[i] <=> t[i] \in set

Quoted(t) == Len(t) >= 2 /\ t[1] = "\"" /\ t[Len(t)] = "\""

\* C14: the token of unquoted escaping, and the token of quoted escaping
\* between its two double quotes, unescape to the value that was escaped,
\* and hold a backslash before a char exactly if the char is in the
\* strategy's escape set.
C14_EscapingRoundTrip ==
    /\ returned.fn = "write_escaped_unquoted" =>
           /\ Unescape(returned.value) = input
           /\ BackslashIff(returned.value, UnquotedEscapeSet)
    /\ returned.fn = "write_escaped_quoted" =>
           /\ Quoted(returned.value)
           /\ LET body == SubSeq(returned.value, 2, Len(returned.value) - 1)
              IN  /\ Unescape(body) = input
                  /\ BackslashIff(body, QuotedEscapeSet)

\* a"\ was written in quotes, with a backslash before the quote and
\* before the backslash
C14_Witness ==
    /\ returned.fn = "write_escaped_quoted"
    /\ input = <<"a", "\"", "\\">>
    /\ returned.value = <<"\"", "a", "\\", "\"", "\\", "\\", "\"">>

-----------------------------------------------------------------------------
(* C15 *)

\* the row of section 4.4 a method belongs to
TableRow(method) ==
    IF method \in ColumnMethods THEN "column"
    ELSE IF method \in {"at", "at_now"} THEN "at"
    ELSE method

\* section 4.4: the state an accepted operation moves to
NextState(row, io_ok) ==
    CASE row = "table" -> TableWritten
      [] row = "symbol" -> SymbolWritten
      [] row = "column" -> ColumnWritten
      [] row = "at" -> MayFlushOrTable
      [] row = "flush" -> IF io_ok THEN Connected ELSE Moribund

\* the call passed its state check: it returned Ok, or it is a flush whose
\* write failed
Accepted(method, res) ==
    res = "Ok" \/ (method = "flush" /\ res = "SocketError")

\* C15: a call whose name is valid (it does not return InvalidName) is
\* accepted exactly if section 4.4 lists its operation for the state it is
\* made in, and an accepted call moves to the state section 4.4 lists:
\* table to TableWritten, symbol to SymbolWritten, column to ColumnWritten,
\* at/at_now to MayFlushOrTable, flush to Connected if the write succeeds
\* and to Moribund if it fails.
C15_BitmaskIsTransitionTable ==
    [][result' # "InvalidName"
       => /\ Accepted(op', result') <=> TableRow(op') \in LegalOps(state)
          /\ Accepted(op', result')
             => state' = NextState(TableRow(op'), result' = "Ok")
      ]_vars

\* table was accepted after a committed line, in MayFlushOrTable
C15_Witness ==
    /\ op = "table"
    /\ result = "Ok"
    /\ state = TableWritten
    /\ LineEnds(output) # {}
    /\ sock = <<>>

-----------------------------------------------------------------------------
(* C16 *)

\* the separators of the line under construction, before the call
LineInProgress == Skeleton(SubSeq(output, LineStart(output), Len(output)))

\* a field of the line under construction follows a comma with no column
\* before it: a symbol
SymbolInLine ==
    \E i \in 1..Len(LineInProgress) :
        /\ LineInProgress[i] = ","
        /\ \A j \in 1..i : LineInProgress[j] # " "

\* a field of the line under construction follows a space: the first column
ColumnInLine == \E i \in 1..Len(LineInProgress) : LineInProgress[i] = " "

AcceptedColumn == op' \in ColumnMethods /\ result' = "Ok"

\* C16 as claimed: an accepted column_* call writes a space before the
\* key if a symbol has been written in the current line and a comma
\* otherwise.
C16_SpaceIffSymbolWritten ==
    [][AcceptedColumn
       => PushedSeparator = IF SymbolInLine THEN " " ELSE ","
      ]_vars

\* C16: an accepted column_* call writes a space before the key if no
\* column has been written in the current line, with or without symbols
\* before it (the state is TableWritten or SymbolWritten, which hold the
\* symbol bit), and a comma if a column has been written in the current
\* line (the state is ColumnWritten), with or without symbols before it.
C16_SpaceIffFirstColumn ==
    [][AcceptedColumn
       => /\ ColumnInLine <=> state = ColumnWritten
          /\ SymbolInLine /\ ~ColumnInLine <=> state = SymbolWritten
          /\ PushedSeparator = IF ColumnInLine THEN "," ELSE " "
      ]_vars

\* a second column was accepted in a line that has a symbol; it follows
\* a comma
C16_Witness ==
    /\ op \in ColumnMethods
    /\ result = "Ok"
    /\ state = ColumnWritten
    /\ Skeleton(SubSeq(output, LineStart(output), Len(output)))
           = <<",", "=", " ", "=", ",", "=">>

-----------------------------------------------------------------------------
(* C17 *)

\* the first chars of s that make n bytes, or s itself if s is shorter
RECURSIVE TakeBytes(_, _)
TakeBytes(s, n) ==
    IF s = <<>> \/ n < Utf8Len(Head(s)) THEN <<>>
    ELSE <<Head(s)>> \o TakeBytes(Tail(s), n - Utf8Len(Head(s)))

\* C17: in every reachable state last_line_start is at most the length of
\* the buffer, and the buffer up to last_line_start is empty or a sequence
\* of complete lines, each ended by an unescaped newline; after a
\* successful flush the buffer is empty and last_line_start is 0, also
\* once a table call has followed.
C17_BoundaryWithinBuffer ==
    /\ last_line_start <= Utf8Bytes(output)
    /\ LET committed == TakeBytes(output, last_line_start) IN
       /\ Utf8Bytes(committed) = last_line_start
       /\ committed # <<>> => Len(committed) \in LineEnds(committed)
    /\ op = "flush" /\ result = "Ok" => output = <<>> /\ last_line_start = 0

-----------------------------------------------------------------------------
(* C18 *)

\* nothing of the buffer is a line in progress: the buffer is not empty,
\* ends with an unescaped newline, and the boundary is its length in bytes
AllCommitted(out, boundary) ==
    /\ out # <<>>
    /\ Len(out) \in LineEnds(out)
    /\ boundary = Utf8Bytes(out)

\* C18: an accepted at or at_now appends to the buffer a text that ends
\* with a newline and sets last_line_start to the length of the resulting
\* buffer; whenever the state is MayFlushOrTable the buffer is not empty,
\* ends with a newline, and last_line_start is the length of the buffer.
C18_AtCommitsTheLine ==
    [][/\ op' \in {"at", "at_now"} /\ result' = "Ok"
          => /\ Len(output') > Len(output)
             /\ SubSeq(output', 1, Len(output)) = output
             /\ LineEnds(output') = LineEnds(output) \cup {Len(output')}
             /\ last_line_start' = Utf8Bytes(output')
       /\ state' = MayFlushOrTable => AllCommitted(output', last_line_start')
      ]_vars

\* at has committed a second line after a first one, and none is in
\* progress
C18_Witness ==
    /\ op = "at"
    /\ result = "Ok"
    /\ state = MayFlushOrTable
    /\ Cardinality(LineEnds(output)) = 2
    /\ last_line_start = Utf8Bytes(output)

-----------------------------------------------------------------------------
(* C19 *)

\* C19: a flush in a state other than MayFlushOrTable, be it right after
\* connect, right after a successful flush, or with a line in progress in
\* TableWritten, SymbolWritten or ColumnWritten, hands nothing to the
\* socket, returns InvalidApiCall and leaves the sender Moribund, its
\* buffer as it was.
C19_FlushOnlyFromMayFlushOrTable ==
    [][op' = "flush" /\ state # MayFlushOrTable
       => /\ sock' = sock
          /\ output' = output
          /\ result' = "InvalidApiCall"
          /\ state' = Moribund
          /\ must_close'
      ]_vars

\* after one successful flush a flush was rejected: the socket has
\* received the one buffer only
C19_Witness ==
    /\ op = "flush"
    /\ Poisoned
    /\ output = <<>>
    /\ Len(sock) = 1
    /\ sock[1].ok

-----------------------------------------------------------------------------
(* C20 *)

\* the bytes the socket has taken: the buffers of the successful writes, in
\* order
RECURSIVE Delivered(_)
Delivered(w) ==
    IF w = <<>> THEN <<>>
    ELSE (IF Head(w).ok THEN Head(w).buf ELSE <<>>) \o Delivered(Tail(w))

\* the lines committed so far, in commit order: those delivered and those
\* of the buffer, up to its last unescaped newline
CommittedSoFar == Delivered(sock) \o SubSeq(output, 1, LineStart(output) - 1)

\* C20: an accepted at or at_now adds its line after the lines committed
\* so far and delivers nothing; a successful flush delivers, after what was
\* delivered before, the committed lines not yet delivered, so that what
\* the socket has taken is the lines committed so far in commit order, and
\* leaves none of them in the buffer to be sent again; no other call
\* commits or delivers anything.
C20_ExactlyOnceInOrder ==
    [][/\ op' \in {"at", "at_now"} /\ result' = "Ok"
          => /\ Delivered(sock') = Delivered(sock)
             /\ CommittedSoFar' = CommittedSoFar \o CommittedLine
       /\ op' = "flush" /\ result' = "Ok"
          => /\ Delivered(sock') = CommittedSoFar
             /\ Len(Delivered(sock')) > Len(Delivered(sock))
             /\ CommittedSoFar' = CommittedSoFar
             /\ output' = <<>>
       /\ ~(op' \in {"at", "at_now", "flush"} /\ result' = "Ok")
          => /\ Delivered(sock') = Delivered(sock)
             /\ CommittedSoFar' = CommittedSoFar
      ]_vars

\* two flushes have succeeded, the second with the one line committed
\* after the first
C20_Witness ==
    /\ op = "flush"
    /\ result = "Ok"
    /\ Len(sock) = 2
    /\ sock[1].ok /\ sock[2].ok
    /\ Cardinality(LineEnds(sock[2].buf)) = 1
    /\ Delivered(sock) = sock[1].buf \o sock[2].buf

-----------------------------------------------------------------------------
(* C21 *)

\* the text of the line under construction in buffer out
LineText(out) == SubSeq(out, LineStart(out), Len(out))

\* the fields of a line under construction, read from its separators sk:
\* a field is a separator and the '=' of its key; it is a column if a space
\* is its separator or the separator of a field before it, else a symbol
FieldKinds(sk) ==
    [i \in 1..(Len(sk) \div 2) |->
        IF \E j \in 1..(2 * i - 1) : sk[j] = " " THEN "column" ELSE "symbol"]

\* sk is separator, '=', separator, '=', ...
FieldPairs(sk) ==
    /\ Len(sk) % 2 = 0
    /\ \A i \in 1..(Len(sk) \div 2) : sk[2 * i - 1] \in {",", " "} /\ sk[2 * i] = "="

SymbolsFirst(kinds) ==
    \A i, j \in 1..Len(kinds) :
        i < j => ~(kinds[i] = "column" /\ kinds[j] = "symbol")

\* the least of a non-empty set of positions
First(positions) == CHOOSE i \in positions : \A j \in positions : i <= j

\* the text of a line before its first separator
FirstToken(line) ==
    CHOOSE token \in {IF d = {} THEN line ELSE SubSeq(line, 1, First(d) - 1) :
                          d \in {Delims(line)}} : TRUE

TableTokens == {write_escaped_unquoted(name) : name \in GoodTableNames}

\* what an accepted symbol or column_* call does to the line under
\* construction, whose separators are `before` ahead of the call and
\* `after` behind it: it adds one field of this kind after the others
AddsField(before, after, kind) ==
    /\ FieldPairs(after)
    /\ FieldKinds(after) = Append(FieldKinds(before), kind)
    /\ FirstToken(LineText(output')) = FirstToken(LineText(output))

\* C21: the fields of the line under construction are those the accepted
\* calls wrote, in the order of the calls: table starts the line with the
\* table name, an accepted symbol adds a symbol to a line that has no
\* column, an accepted column_* adds a column; symbol after a column and
\* at or at_now right after table are rejected and poison the sender; so
\* the line an accepted at or at_now commits starts with the table name,
\* has at least one field, and has every symbol before every column.
C21_FieldOrder ==
    [][/\ op' = "table" /\ result' = "Ok"
          => /\ LineText(output) = <<>>
             /\ LineText(output') \in TableTokens
       /\ op' = "symbol" /\ result' = "Ok"
          => \A before \in {Skeleton(LineText(output))},
                after \in {Skeleton(LineText(output'))} :
                 /\ \A i \in 1..Len(FieldKinds(before)) :
                        FieldKinds(before)[i] = "symbol"
                 /\ AddsField(before, after, "symbol")
       /\ op' \in ColumnMethods /\ result' = "Ok"
          => \A before \in {Skeleton(LineText(output))},
                after \in {Skeleton(LineText(output'))} :
                 AddsField(before, after, "column")
       /\ op' = "symbol" /\ result' # "InvalidName" /\ state = ColumnWritten
          => Poisoned' /\ output' = output
       /\ op' \in {"at", "at_now"} /\ state = TableWritten
          => Poisoned' /\ output' = output
       /\ op' \in {"at", "at_now"} /\ result' = "Ok"
          => \A before \in {Skeleton(LineText(output))} :
                 /\ CommittedLine = LineText(output) \o Pushed
                 /\ FirstToken(CommittedLine) \in TableTokens
                 /\ FieldPairs(before)
                 /\ FieldKinds(before) # <<>>
                 /\ SymbolsFirst(FieldKinds(before))
      ]_vars

\* a line with a symbol and then a column has been committed by at_now
C21_Witness ==
    /\ op = "at_now"
    /\ result = "Ok"
    /\ LET line == SubSeq(output, LineStart(SubSeq(output, 1, Len(output) - 1)),
                          Len(output))
       IN  /\ Skeleton(line) = <<",", "=", " ", "=", "\n">>
           /\ FirstToken(line) \in TableTokens

====
